---- MODULE Spec2Model ----
(***************************************************************************)
(* Model of the trending-business mention counter and scoring engine       *)
(* (src/app/trending.py) and of the scheduler path that re-implements the   *)
(* scoring (src/app/main.py, refresh_trending).                             *)
(*                                                                         *)
(* Text is a sequence of one-character strings.  Floating-point registers  *)
(* are exact rationals kept as integers scaled by Scale; a lift is the     *)
(* fraction [n, d] of two scaled integers and is compared as a fraction.   *)
(***************************************************************************)
EXTENDS Integers, Sequences, FiniteSets, TLC

\* ------------------------------------------------------------------ bounds

\* Scoring calls (score_titles or refresh_trending) per behaviour.
MaxCalls == 2
\* Length of the texts enumerated for the mention counter.
MaxLen == 4
\* Roster entries after the three companies with aliases and tickers.
NFill == 19

\* ------------------------------------------------------- program constants

\* self.alpha = 0.3 as AlphaNum / RateDen, self.recent_alpha = 0.5 as
\* RecentAlphaNum / RateDen.
AlphaNum == 3
RecentAlphaNum == 5
RateDen == 10
\* lift > 1.2 as LiftNum / LiftDen
LiftNum == 6
LiftDen == 5
\* all_results[:20]
TopN == 20

RECURSIVE Pow(_, _)
Pow(b, e) == IF e = 0 THEN 1 ELSE b * Pow(b, e - 1)

\* Scoring calls of the longest behaviour: those of a burst and then those of
\* a decay over batches without a mention.
MaxDecay == MaxCalls + 2

\* One unit (1.0) of a register.  Every scoring call divides by 2 and by 10,
\* so MaxDecay calls stay exact.
Scale == Pow(20, MaxDecay)

\* -------------------------------------------------------------- characters

UpperChars == <<"A","B","C","D","E","F","G","H","I","J","K","L","M",
                "N","O","P","Q","R","S","T","U","V","W","X","Y","Z">>
LowerChars == <<"a","b","c","d","e","f","g","h","i","j","k","l","m",
                "n","o","p","q","r","s","t","u","v","w","x","y","z">>
DigitChars == {"0","1","2","3","4","5","6","7","8","9"}

Range(s) == {s[i] : i \in 1..Len(s)}

\* \w of the re module, over the characters of the model.
WordChars == Range(UpperChars) \cup Range(LowerChars) \cup DigitChars \cup {"_"}

\* Case folding of (?i).
UpperSet == Range(UpperChars)
LowerOf == [ch \in UpperSet |->
    LowerChars[CHOOSE i \in 1..Len(UpperChars) : UpperChars[i] = ch]]
Lower(ch) == IF ch \in UpperSet THEN LowerOf[ch] ELSE ch

\* A string case-folded, as the tuple of its characters.
Fold(s) == SubSeq([i \in 1..Len(s) |-> Lower(s[i])], 1, Len(s))

\* --------------------------------------------------------------- companies

\* ticker = <<>> is ticker None ("" becomes None in load_companies).
Company(name, ticker, aliases) ==
    [name |-> name, ticker |-> ticker, aliases |-> aliases]

FillName(i) == <<"F", LowerChars[i]>>

\* The roster load_companies returns: non-empty names, the primary key of the
\* roster file and so unique; aliases stripped and non-empty.
companies ==
    <<Company(<<"X","a">>, <<"A","I">>, << <<"X">> >>),
      Company(<<"M","a","x">>, <<>>, <<>>),
      Company(<<"M","i">>, <<"I">>, << <<"M">>, <<"M","i","a">> >>)>>
    \o [i \in 1..NFill |-> Company(FillName(i), <<>>, <<>>)]

Names == {companies[i].name : i \in 1..Len(companies)}

\* ---------------------------------------------------------------- patterns

\* A compiled pattern: its kind and its literal, case-folded for (?i).
\* re.compile(rf"(?i)(?<![\w$]){escaped}(?![\w$])")
compile_word_pattern(phrase) == [kind |-> "word", phrase |-> Fold(phrase)]

\* re.compile(rf"(?i)(?<![\w])\$?{escaped}(?![\w])")
compile_ticker_pattern(ticker) == [kind |-> "ticker", phrase |-> Fold(ticker)]

\* The patterns of one company, in the order __init__ appends them.
Patterns(c) ==
    <<compile_word_pattern(c.name)>>
    \o [i \in 1..Len(c.aliases) |-> compile_word_pattern(c.aliases[i])]
    \o (IF c.ticker # <<>> THEN <<compile_ticker_pattern(c.ticker)>> ELSE <<>>)

company_patterns == [i \in 1..Len(companies) |-> Patterns(companies[i])]

\* The folded literal at text[pos .. pos+Len(phrase)-1] of a folded text.
LiteralAt(phrase, text, pos) ==
    /\ pos + Len(phrase) - 1 <= Len(text)
    /\ \A i \in 1..Len(phrase) : text[pos + i - 1] = phrase[i]

\* The character classes of the lookarounds.
WordOrDollar == WordChars \cup {"$"}
\* The word patterns without "$" in their lookarounds.
BoundsWordOnly(kind) == WordChars

Bounds(kind) == IF kind = "word" THEN WordOrDollar ELSE WordChars

LookBehind(p, text, pos) == pos = 1 \/ text[pos - 1] \notin Bounds(p.kind)

LookAhead(p, text, end) == end > Len(text) \/ text[end] \notin Bounds(p.kind)

\* The literal and then the lookahead, from pos: the position after the
\* match, or 0.
BodyAt(p, text, pos) ==
    IF LiteralAt(p.phrase, text, pos) /\ LookAhead(p, text, pos + Len(p.phrase))
    THEN pos + Len(p.phrase)
    ELSE 0

\* One attempt of the regex engine at position pos of a folded text: the
\* position after the match, or 0.  \$? is greedy: the sigil is consumed
\* first and given back when the rest fails.
MatchAt(p, text, pos) ==
    IF p.kind = "ticker" /\ pos <= Len(text) /\ text[pos] = "$"
       /\ BodyAt(p, text, pos + 1) # 0 /\ LookBehind(p, text, pos)
    THEN BodyAt(p, text, pos + 1)
    ELSE IF BodyAt(p, text, pos) # 0 /\ LookBehind(p, text, pos)
    THEN BodyAt(p, text, pos)
    ELSE 0

\* len(p.findall(text)) scanning from pos: leftmost, non-overlapping.
RECURSIVE FindallFrom(_, _, _)
FindallFrom(p, text, pos) ==
    IF pos > Len(text) + 1 THEN 0
    ELSE LET end == MatchAt(p, text, pos)
         IN  (IF end = 0 THEN 0 ELSE 1)
             + FindallFrom(p, text, IF end = 0 \/ end = pos THEN pos + 1 ELSE end)

\* len(p.findall(text)) for a folded text.
findall(p, text) == FindallFrom(p, text, 1)

\* ----------------------------------------------------------- count_mentions

\* alias_used: None, or a string.
NoLabel == [some |-> FALSE, s |-> <<>>]
Label(s) == [some |-> TRUE, s |-> s]
\* Python truthiness of an Optional[str].
Truthy(l) == l.some /\ l.s # <<>>

\* Lines 79-86: the label of pattern number i (from 0) of company c.
LabelOf(c, i) ==
    IF i = 0 THEN Label(c.name)
    ELSE IF i - 1 < Len(c.aliases) THEN Label(c.aliases[i])
    ELSE IF c.ticker # <<>> /\ i = Len(c.aliases) + 1 THEN Label(<<"$">> \o c.ticker)
    ELSE NoLabel

\* The inner loop of _count_mentions from pattern i (from 0) on, with the
\* running total and alias_used.
RECURSIVE PatternLoop(_, _, _, _, _, _)
PatternLoop(c, patterns, text, i, total, alias_used) ==
    IF i >= Len(patterns) THEN [total |-> total, alias_used |-> alias_used]
    ELSE LET matches == findall(patterns[i + 1], text)
         IN  PatternLoop(c, patterns, text, i + 1, total + matches,
                         IF matches > 0 /\ ~alias_used.some THEN LabelOf(c, i)
                         ELSE alias_used)

CompanyCount(k, text) ==
    PatternLoop(companies[k], company_patterns[k], text, 0, 0, NoLabel)

EmptyMap == [x \in {} |-> 0]

\* dict.get(k, default)
Get(m, k, default) == IF k \in DOMAIN m THEN m[k] ELSE default

\* m[k] = v
Put(m, k, v) == (k :> v) @@ m

\* Lines 70-88: counts after the loop has done the first k roster entries,
\* on a folded text.
RECURSIVE CountLoop(_, _)
CountLoop(k, text) ==
    IF k = 0 THEN EmptyMap
    ELSE LET c == CompanyCount(k, text)
             before == CountLoop(k - 1, text)
         IN  IF c.total > 0 THEN Put(before, companies[k].name, c) ELSE before

\* _count_mentions: name -> (total, alias_used), only companies with
\* total > 0.
count_mentions(text) == CountLoop(Len(companies), Fold(text))

\* ----------------------------------------------------------------- scoring

\* The label of the latest title wins.
MergeCountsLastWins(agg_counts, cnt) ==
    [n \in DOMAIN agg_counts \cup DOMAIN cnt |->
        IF n \notin DOMAIN cnt THEN agg_counts[n]
        ELSE IF n \in DOMAIN agg_counts
        THEN [total |-> agg_counts[n].total + cnt[n].total,
              alias_used |-> IF Truthy(cnt[n].alias_used)
                             THEN cnt[n].alias_used
                             ELSE agg_counts[n].alias_used]
        ELSE cnt[n]]

\* Lines 96-101: one title's counts folded into agg_counts.  prev is a
\* 2-tuple, so "if prev" is "name in agg_counts".
MergeCounts(agg_counts, cnt) ==
    [n \in DOMAIN agg_counts \cup DOMAIN cnt |->
        IF n \notin DOMAIN cnt THEN agg_counts[n]
        ELSE IF n \in DOMAIN agg_counts
        THEN [total |-> agg_counts[n].total + cnt[n].total,
              alias_used |-> IF Truthy(agg_counts[n].alias_used)
                             THEN agg_counts[n].alias_used
                             ELSE cnt[n].alias_used]
        ELSE cnt[n]]

\* Lines 93-101 (and main.py 72-80): agg_counts after the first i titles.
RECURSIVE Aggregate(_, _)
Aggregate(titles, i) ==
    IF i = 0 THEN EmptyMap
    ELSE MergeCounts(Aggregate(titles, i - 1), count_mentions(titles[i]))

\* float(agg_counts.get(name, (0, None))[0]), scaled.
RawRecent(agg_counts, name) ==
    Scale * Get(agg_counts, name, [total |-> 0, alias_used |-> NoLabel]).total

AliasUsed(agg_counts, name) ==
    Get(agg_counts, name, [total |-> 0, alias_used |-> NoLabel]).alias_used

\* An unset register read as 0.0.
PrevRecentEmaZero(recent_ema, name, raw_recent) == Get(recent_ema, name, 0)

\* Line 111: self.recent_ema.get(company.name, raw_recent)
PrevRecentEma(recent_ema, name, raw_recent) == Get(recent_ema, name, raw_recent)

\* The register held while the batch has no mention.
SmoothedHold(prev_recent_ema, raw_recent) ==
    IF raw_recent = 0
    THEN prev_recent_ema
    ELSE ((RateDen - RecentAlphaNum) * prev_recent_ema + RecentAlphaNum * raw_recent)
             \div RateDen

\* The register reset to the raw count.
SmoothedReset(prev_recent_ema, raw_recent) == raw_recent

\* Line 114: (1 - recent_alpha) * prev_recent_ema + recent_alpha * raw_recent
Smoothed(prev_recent_ema, raw_recent) ==
    ((RateDen - RecentAlphaNum) * prev_recent_ema + RecentAlphaNum * raw_recent)
        \div RateDen

\* Line 119 (main.py 90): (recent + 1.0) / (baseline + 1.0), as a fraction.
Lift(recent, base) == [n |-> recent + Scale, d |-> base + Scale]

\* The recent value subtracted instead of added.
NewBaselineMinus(base, recent) ==
    ((RateDen - AlphaNum) * base - AlphaNum * recent) \div RateDen

\* Line 122 (main.py 93): (1 - alpha) * baseline + alpha * recent
NewBaseline(base, recent) ==
    ((RateDen - AlphaNum) * base + AlphaNum * recent) \div RateDen

\* a/b < c/d for b, d > 0, by continued fractions (no product is formed).
RECURSIVE RatLess(_, _, _, _)
RatLess(a, b, c, d) ==
    LET q1 == a \div b
        q2 == c \div d
        r1 == a % b
        r2 == c % d
    IN  IF q1 # q2 THEN q1 < q2
        ELSE IF r2 = 0 THEN FALSE
        ELSE IF r1 = 0 THEN TRUE
        ELSE RatLess(d, r2, b, r1)

LiftLess(x, y) == RatLess(x.n, x.d, y.n, y.d)

\* lift > 1.2
AboveThreshold(lift) == LiftDen * lift.n > LiftNum * lift.d

\* Inclusion by lift alone.
IncludedLiftOnly(raw_recent, lift) == AboveThreshold(lift)

\* Line 127 (main.py 97): raw_recent > 0 or lift > 1.2
Included(raw_recent, lift) == raw_recent > 0 \/ AboveThreshold(lift)


\* ------------------------------------------------------------- _clean_alias

\* The literal lit at s[pos ..].
StartsAt(s, pos, lit) ==
    /\ pos + Len(lit) - 1 <= Len(s)
    /\ \A i \in 1..Len(lit) : s[pos + i - 1] = lit[i]

\* s[pos ..].replace(lit, "")
RECURSIVE RemoveLiteral(_, _, _)
RemoveLiteral(s, pos, lit) ==
    IF pos > Len(s) THEN <<>>
    ELSE LET hit == StartsAt(s, pos, lit)
         IN  (IF hit THEN <<>> ELSE <<s[pos]>>)
             \o RemoveLiteral(s, IF hit THEN pos + Len(lit) ELSE pos + 1, lit)

\* re.sub(open [^)]* \), "", s[pos ..]): a group runs from its opening to the
\* first ")" after it.
RECURSIVE RemoveGroup(_, _, _)
RemoveGroup(s, pos, open) ==
    IF pos > Len(s) THEN <<>>
    ELSE LET closes == {j \in (pos + Len(open))..Len(s) : s[j] = ")"}
             hit == StartsAt(s, pos, open) /\ closes # {}
         IN  (IF hit THEN <<>> ELSE <<s[pos]>>)
             \o RemoveGroup(s, IF hit THEN (CHOOSE j \in closes : \A m \in closes : j <= m) + 1
                                ELSE pos + 1, open)

\* s.strip(chars)
StripChars(s, chars) ==
    LET keep == {i \in 1..Len(s) : s[i] \notin chars}
    IN  IF keep = {} THEN <<>>
        ELSE SubSeq(s, CHOOSE i \in keep : \A j \in keep : i <= j,
                       CHOOSE i \in keep : \A j \in keep : j <= i)

RegexChars == {"(", ")", "[", "]", "?", "*", "+"}
Whitespace == {" ", "\t", "\n", "\r"}

\* Lines 155-174.
clean_alias(regex_pattern) ==
    IF regex_pattern = <<>> THEN <<>>
    ELSE LET c1 == RemoveLiteral(regex_pattern, 1, <<"(", "?", "i", ")">>)
             c2 == RemoveGroup(c1, 1, <<"(", "?", "<", "!">>)
             c3 == RemoveGroup(c2, 1, <<"(", "?", "!">>)
             c4 == RemoveLiteral(c3, 1, <<"\\">>)
             c5 == StripChars(c4, {"$"})
         IN  IF Range(c5) \cap RegexChars # {} THEN <<>>
             ELSE StripChars(c5, Whitespace)

\* Lines 136-141: the alias_used field of a result.
DisplayAlias(alias_used) ==
    IF Truthy(alias_used) THEN Label(clean_alias(alias_used.s)) ELSE NoLabel

\* ------------------------------------------------------------ score_titles

\* Lines 128-138 (main.py 98-108): one result row.
Result(c, recent_count, base, lift, timestamp, alias_used) ==
    [name |-> c.name, ticker |-> c.ticker, recent_count |-> recent_count,
     baseline |-> base, lift |-> lift, timestamp |-> timestamp,
     alias_used |-> DisplayAlias(alias_used)]

\* The baseline tracking the raw count.
ScoreCompanyRaw(st, k, agg_counts, timestamp) ==
    LET c == companies[k]
        raw_recent == RawRecent(agg_counts, c.name)
        base == Get(st.baseline, c.name, 0)
        prev_recent_ema == PrevRecentEma(st.recent_ema, c.name, raw_recent)
        smoothed_recent == Smoothed(prev_recent_ema, raw_recent)
        lift == Lift(smoothed_recent, base)
        new_baseline == NewBaseline(base, raw_recent)
    IN  [baseline |-> Put(st.baseline, c.name, new_baseline),
         recent_ema |-> Put(st.recent_ema, c.name, smoothed_recent),
         all_results |->
            IF Included(raw_recent, lift)
            THEN Append(st.all_results,
                        Result(c, smoothed_recent, base, lift, timestamp,
                               AliasUsed(agg_counts, c.name)))
            ELSE st.all_results]

\* Lines 106-141: the body of the loop for roster entry k, on the engine
\* state and results st = [baseline, recent_ema, all_results].
ScoreCompany(st, k, agg_counts, timestamp) ==
    LET c == companies[k]
        raw_recent == RawRecent(agg_counts, c.name)
        base == Get(st.baseline, c.name, 0)
        prev_recent_ema == PrevRecentEma(st.recent_ema, c.name, raw_recent)
        smoothed_recent == Smoothed(prev_recent_ema, raw_recent)
        lift == Lift(smoothed_recent, base)
        new_baseline == NewBaseline(base, smoothed_recent)
    IN  [baseline |-> Put(st.baseline, c.name, new_baseline),
         recent_ema |-> Put(st.recent_ema, c.name, smoothed_recent),
         all_results |->
            IF Included(raw_recent, lift)
            THEN Append(st.all_results,
                        Result(c, smoothed_recent, base, lift, timestamp,
                               AliasUsed(agg_counts, c.name)))
            ELSE st.all_results]

\* Lines 105-141: the loop over company_patterns from st, after its first k
\* entries.
RECURSIVE ScoreLoop(_, _, _, _)
ScoreLoop(st, k, agg_counts, timestamp) ==
    IF k = 0 THEN st
    ELSE CHOOSE next \in {ScoreCompany(s, k, agg_counts, timestamp) :
                             s \in {ScoreLoop(st, k - 1, agg_counts, timestamp)}} : TRUE

\* The key reduced to lift.
KeyLessLiftOnly(a, b) == LiftLess(a.lift, b.lift)

\* The key (lift, recent_count) of a is less than that of b.
KeyLess(a, b) ==
    \/ LiftLess(a.lift, b.lift)
    \/ ~LiftLess(b.lift, a.lift) /\ a.recent_count < b.recent_count

\* x put into a list sorted descending, after every entry whose key is not
\* less than its own: the sort is stable.
InsertDesc(sorted, x) ==
    LET ahead == Cardinality({i \in 1..Len(sorted) : ~KeyLess(sorted[i], x)})
    IN  SubSeq(sorted, 1, ahead) \o <<x>> \o SubSeq(sorted, ahead + 1, Len(sorted))

\* Line 144 (main.py 113): sort(key=(lift, recent_count), reverse=True) of
\* the first i rows.
RECURSIVE SortDesc(_, _)
SortDesc(rows, i) ==
    IF i = 0 THEN <<>>
    ELSE CHOOSE next \in {InsertDesc(sorted, rows[i]) : sorted \in {SortDesc(rows, i - 1)}} : TRUE

\* Line 147 (main.py 117): all_results[:20]
Top(rows) == SubSeq(rows, 1, IF Len(rows) < TopN THEN Len(rows) ELSE TopN)

\* Lines 143-147 (main.py 112-117): the sort and the slice, with the state the
\* loop left st and the locals.
Outcome(st, agg_counts, all_results) ==
    [baseline |-> st.baseline, recent_ema |-> st.recent_ema,
     agg_counts |-> agg_counts, all_results |-> all_results,
     returned |-> Top(all_results)]

SortAndSlice(st, agg_counts) ==
    Outcome(st, agg_counts, SortDesc(st.all_results, Len(st.all_results)))

\* Lines 103-147 on the aggregated counts.
ScoreAggregated(base, recent, agg_counts, timestamp) ==
    SortAndSlice(ScoreLoop([baseline |-> base, recent_ema |-> recent, all_results |-> <<>>],
                           Len(companies), agg_counts, timestamp),
                 agg_counts)

\* score_titles on the engine state (base, recent): the state it leaves,
\* its locals and the list it returns.
score_titles(base, recent, titles, timestamp) ==
    ScoreAggregated(base, recent, Aggregate(titles, Len(titles)), timestamp)

\* -------------------------------------------------------- refresh_trending

\* main.py 85-110: the body of the scheduler's loop for roster entry k.
RefreshCompany(st, k, agg_counts, timestamp) ==
    LET c == companies[k]
        recent == RawRecent(agg_counts, c.name)
        base == Get(st.baseline, c.name, 0)
        lift == Lift(recent, base)
        new_baseline == NewBaseline(base, recent)
    IN  [baseline |-> Put(st.baseline, c.name, new_baseline),
         recent_ema |-> st.recent_ema,
         all_results |->
            IF Included(recent, lift)
            THEN Append(st.all_results,
                        Result(c, recent, base, lift, timestamp,
                               AliasUsed(agg_counts, c.name)))
            ELSE st.all_results]

\* main.py 84-110: the loop from st, after its first k entries.
RECURSIVE RefreshLoop(_, _, _, _)
RefreshLoop(st, k, agg_counts, timestamp) ==
    IF k = 0 THEN st
    ELSE CHOOSE next \in {RefreshCompany(s, k, agg_counts, timestamp) :
                             s \in {RefreshLoop(st, k - 1, agg_counts, timestamp)}} : TRUE

\* main.py 120-123: the snapshot of the top 20.
HistoricalEntry(timestamp, latest) ==
    [timestamp |-> timestamp,
     companies |-> [n \in {latest[i].name : i \in 1..Len(latest)} |->
        LET last == CHOOSE i \in 1..Len(latest) :
                        /\ latest[i].name = n
                        /\ \A j \in 1..Len(latest) : latest[j].name = n => j <= i
        IN  [lift |-> latest[last].lift, recent_count |-> latest[last].recent_count]]]

HistoryLimit == 100

\* main.py 124-128: append, then drop the oldest when over the limit.
AppendHistory(history, entry) ==
    LET h == Append(history, entry)
    IN  IF Len(h) > HistoryLimit THEN Tail(h) ELSE h

\* main.py 82-117 on the aggregated counts.
RefreshAggregated(base, recent, agg_counts, timestamp) ==
    SortAndSlice(RefreshLoop([baseline |-> base, recent_ema |-> recent, all_results |-> <<>>],
                             Len(companies), agg_counts, timestamp),
                 agg_counts)

\* main.py 71-117 on the engine state (base, recent).
refresh_scores(base, recent, titles, timestamp) ==
    RefreshAggregated(base, recent, Aggregate(titles, Len(titles)), timestamp)

\* ------------------------------------------------------- state restoration

\* A JSON value of a restored map: a number (scaled), or something float()
\* rejects ("str": a non-numeric string, "null": None).
JNum(v) == [t |-> "num", v |-> v]
JStr == [t |-> "str", v |-> 0]
JNull == [t |-> "null", v |-> 0]

\* An entry of the restored dict: absent, not a mapping, or a mapping.
Missing == [kind |-> "missing", m |-> EmptyMap]
NotMap == [kind |-> "notmap", m |-> EmptyMap]
Map(m) == [kind |-> "map", m |-> m]

\* baseline_state: None, a value that is no dict (truthy or not), or a dict.
NoState == [kind |-> "none", truthy |-> FALSE, baseline |-> Missing, recent_ema |-> Missing]
NotDict(truthy) ==
    [kind |-> "other", truthy |-> truthy, baseline |-> Missing, recent_ema |-> Missing]
\* A dict is truthy unless it is {}; one with neither entry may hold other keys.
Dict(b, r, truthy) ==
    [kind |-> "dict", truthy |-> truthy, baseline |-> b, recent_ema |-> r]

\* {k: float(v) for k, v in baseline_state.get(key, {}).items()}: raises on a
\* value that has no items() and on a value float() rejects.
RestoreEntry(e) ==
    IF e.kind = "missing" THEN [raised |-> FALSE, m |-> EmptyMap]
    ELSE IF e.kind = "notmap" THEN [raised |-> TRUE, m |-> EmptyMap]
    ELSE IF \E k \in DOMAIN e.m : e.m[k].t # "num" THEN [raised |-> TRUE, m |-> EmptyMap]
    ELSE [raised |-> FALSE, m |-> [k \in DOMAIN e.m |-> e.m[k].v]]

\* recent_ema left empty by the constructor.
RestoreBaselineOnly(baseline_state) ==
    IF ~(baseline_state.truthy /\ baseline_state.kind = "dict")
    THEN [raised |-> FALSE, baseline |-> EmptyMap, recent_ema |-> EmptyMap]
    ELSE LET b == RestoreEntry(baseline_state.baseline)
         IN  [raised |-> b.raised, baseline |-> b.m, recent_ema |-> EmptyMap]

\* Lines 53-58: the registers __init__ leaves, or that it raised.
Restore(baseline_state) ==
    IF ~(baseline_state.truthy /\ baseline_state.kind = "dict")
    THEN [raised |-> FALSE, baseline |-> EmptyMap, recent_ema |-> EmptyMap]
    ELSE LET b == RestoreEntry(baseline_state.baseline)
             r == RestoreEntry(baseline_state.recent_ema)
         IN  IF b.raised \/ r.raised
             THEN [raised |-> TRUE, baseline |-> EmptyMap, recent_ema |-> EmptyMap]
             ELSE [raised |-> FALSE, baseline |-> b.m, recent_ema |-> r.m]

\* Lines 149-153, as the JSON document json.dump writes.
serialize_state(base, recent) ==
    Dict(Map([k \in DOMAIN base |-> JNum(base[k])]),
         Map([k \in DOMAIN recent |-> JNum(recent[k])]), TRUE)

\* ------------------------------------------------------------------ inputs

NameOf(k) == companies[k].name

\* Restored registers that rank the whole roster: lifts 2, 2, 3, 3 after a
\* batch without mentions, tied pairs differing in recent_count.
RampRecent == [n \in Names |->
    LET k == CHOOSE i \in 1..Len(companies) : NameOf(i) = n
    IN  JNum(Scale * (CASE k % 4 = 1 -> 2 [] k % 4 = 2 -> 6 [] k % 4 = 3 -> 4 [] OTHER -> 10))]
RampBaseline == [n \in Names |->
    LET k == CHOOSE i \in 1..Len(companies) : NameOf(i) = n
    IN  JNum(Scale * (IF k % 2 = 0 THEN 1 ELSE 0))]

\* A name no roster entry has.
Unknown == <<"Z", "z">>

\* A baseline high enough that one mention leaves lift under the threshold.
\* NameOf(2) gets lift 1.05 from one mention, NameOf(3) lift 1.2 from none.
SparseBaseline == [n \in {NameOf(1), NameOf(2), NameOf(3), Unknown} |->
    JNum(Scale * (IF n = NameOf(2) THEN 19 ELSE 4))]
SparseRecent == [n \in {NameOf(2), NameOf(3), Unknown} |->
    JNum(Scale * (IF n = NameOf(2) THEN 39 ELSE 10))]
BadValues == [n \in {NameOf(1), NameOf(2)} |-> IF n = NameOf(1) THEN JNum(Scale) ELSE JStr]

\* What on_startup can find in the baseline file.
RestoredStates ==
    { NoState, NotDict(TRUE), NotDict(FALSE), Dict(Missing, Missing, FALSE),
      Dict(Map(RampBaseline), Map(RampRecent), TRUE),
      Dict(Map(RampBaseline), Missing, TRUE),
      Dict(Missing, Map(RampRecent), TRUE),
      Dict(Map(SparseBaseline), Map(SparseRecent), TRUE),
      Dict(NotMap, Map(SparseRecent), TRUE),
      Dict(Map(SparseBaseline), Map(BadValues), TRUE),
      Dict(Map([n \in {NameOf(1)} |-> JNull]), Missing, TRUE) }

\* The history file is absent, unreadable or an empty list: historical_data
\* starts as [].
HistoryFiles == { <<>> }

\* The batches of one scoring call.
Batches ==
    { <<>>,
      << <<"X","a"," ","X">> >>,
      << <<"x">>, <<"$","A","I"," ","X"," ","X","a">> >>,
      << <<"M","a","x"," ","M","i","a">>, <<"I"," ","M">> >>,
      << <<"$","I"," ","f","a"," ","f","b">>, <<"x">> >> }

\* ------------------------------------------------------------------- state

VARIABLES
    detector,             \* "none" before on_startup, then "ready"
    raised,               \* TrendingDetector(...) raised out of on_startup
    baseline,             \* detector.baseline: name -> scaled float
    recent_ema,           \* detector.recent_ema
    latest_scores,        \* main.py globals
    all_trending_scores,
    historical_data,
    baseline_file,        \* what this process last wrote to BASELINE_PATH
    history_file,         \* and to HISTORY_PATH
    baseline_state,       \* the argument of the last operation if it was
                          \* __init__, else NoState
    titles,               \* the arguments and locals of the last operation
    timestamp,            \* if it was a scoring call, else empty
    agg_counts,
    all_results,          \* all_results after the sort
    returned,             \* what score_titles returned
    op,                   \* the last operation
    pre,                  \* the registers before the last operation
    calls,                \* scoring calls so far
    exported,             \* the registers last exported, and calls then
    text,                 \* the text given to _count_mentions
    counts,               \* what _count_mentions returned for it
    pc                    \* "text": not counted yet, "counted"

engine == <<detector, raised, baseline, recent_ema>>
globals == <<latest_scores, all_trending_scores, historical_data, baseline_file, history_file>>
locals == <<baseline_state, titles, timestamp, agg_counts, all_results, returned>>
trail == <<op, pre, calls, exported>>
matcher == <<text, counts, pc>>
vars == <<engine, globals, locals, trail, matcher>>

Registers(b, r) == [baseline |-> b, recent_ema |-> r]

\* The module-level state of main.py before on_startup runs.
Boot ==
    /\ detector = "none"
    /\ raised = FALSE
    /\ baseline = EmptyMap
    /\ recent_ema = EmptyMap
    /\ latest_scores = <<>>
    /\ all_trending_scores = <<>>
    /\ historical_data = <<>>
    /\ baseline_file = NoState
    /\ history_file = <<>>
    /\ baseline_state = NoState
    /\ titles = <<>>
    /\ timestamp = 0
    /\ agg_counts = EmptyMap
    /\ all_results = <<>>
    /\ returned = <<>>
    /\ op = "boot"
    /\ pre = Registers(EmptyMap, EmptyMap)
    /\ calls = 0
    /\ exported = [at |-> -1, registers |-> Registers(EmptyMap, EmptyMap)]

Init ==
    /\ Boot
    /\ text = <<>>
    /\ counts = EmptyMap
    /\ pc = "idle"

\* No scoring call is the last operation.
NoScoringFrame ==
    /\ titles' = <<>>
    /\ timestamp' = 0
    /\ agg_counts' = EmptyMap
    /\ all_results' = <<>>
    /\ returned' = <<>>

\* Lines 33-58: TrendingDetector(companies, st) replaces the detector, or
\* raises and leaves none.
Construct(st) ==
    /\ baseline_state' = st
    /\ \E r \in {Restore(st)} :
           /\ raised' = r.raised
           /\ detector' = IF r.raised THEN "none" ELSE "ready"
           /\ baseline' = r.baseline
           /\ recent_ema' = r.recent_ema
    /\ pre' = Registers(baseline, recent_ema)
    /\ NoScoringFrame

\* main.py 150-177: on_startup reads the history and the baseline file and
\* constructs the detector.
OnStartup(st, hist) ==
    /\ detector = "none"
    /\ ~raised
    /\ historical_data' = hist
    /\ Construct(st)
    /\ op' = "on_startup"
    /\ UNCHANGED <<latest_scores, all_trending_scores, baseline_file, history_file>>
    /\ UNCHANGED <<calls, exported, matcher>>

\* trending.py 91-147: detector.score_titles(batch, timestamp).
ScoreTitlesWithin(batch, limit) ==
    /\ detector = "ready"
    /\ calls < limit
    /\ \E r \in {score_titles(baseline, recent_ema, batch, calls + 1)} :
           /\ baseline' = r.baseline
           /\ recent_ema' = r.recent_ema
           /\ agg_counts' = r.agg_counts
           /\ all_results' = r.all_results
           /\ returned' = r.returned
    /\ titles' = batch
    /\ timestamp' = calls + 1
    /\ baseline_state' = NoState
    /\ op' = "score_titles"
    /\ pre' = Registers(baseline, recent_ema)
    /\ calls' = calls + 1
    /\ UNCHANGED <<detector, raised, globals, exported, matcher>>

ScoreTitles(batch) == ScoreTitlesWithin(batch, MaxCalls)

\* main.py 55-135: one run of the scheduler's refresh over the fetched batch.
RefreshTrending(batch) ==
    /\ detector = "ready"
    /\ calls < MaxCalls
    /\ \E r \in {refresh_scores(baseline, recent_ema, batch, calls + 1)} :
           /\ baseline' = r.baseline
           /\ recent_ema' = r.recent_ema
           /\ agg_counts' = r.agg_counts
           /\ all_results' = r.all_results
           /\ all_trending_scores' = r.all_results
           /\ latest_scores' = r.returned
           /\ historical_data' =
                AppendHistory(historical_data, HistoricalEntry(calls + 1, r.returned))
           /\ baseline_file' = serialize_state(r.baseline, r.recent_ema)
    /\ history_file' = historical_data'
    /\ titles' = batch
    /\ timestamp' = calls + 1
    /\ baseline_state' = NoState
    /\ returned' = <<>>
    /\ op' = "refresh_trending"
    /\ pre' = Registers(baseline, recent_ema)
    /\ calls' = calls + 1
    /\ UNCHANGED <<detector, raised, exported, matcher>>

Next ==
    \/ \E st \in RestoredStates, hist \in HistoryFiles : OnStartup(st, hist)
    \/ \E batch \in Batches : ScoreTitles(batch)
    \/ \E batch \in Batches : RefreshTrending(batch)

Spec == Init /\ [][Next]_vars

\* ------------------------------------------------------------- properties

\* C1: a score_titles call sets the recent_ema of every roster company that
\* had a stored value r to 0.5*r + 0.5*c, c its aggregated raw count in the
\* batch; with no mention (c = 0) that is r/2, not 0 unless r is 0, and the
\* register is written although the company had no match.
C1_DecayNotReset ==
    op = "score_titles" =>
        \A n \in Names \cap DOMAIN pre.recent_ema :
            LET r == pre.recent_ema[n]
                c == Scale * (IF n \in DOMAIN agg_counts THEN agg_counts[n].total ELSE 0)
            IN  /\ n \in DOMAIN recent_ema
                /\ 2 * recent_ema[n] = r + c
                /\ (c = 0 /\ r > 0) => (recent_ema[n] > 0 /\ recent_ema[n] < r)

\* 10.0 becomes 5.0 over a batch without a mention.
C1_Witness ==
    /\ op = "score_titles"
    /\ \E n \in Names \cap DOMAIN pre.recent_ema :
        /\ n \notin DOMAIN agg_counts
        /\ pre.recent_ema[n] = 10 * Scale
        /\ recent_ema[n] = 5 * Scale

C3_BaselineTracksSmoothed ==
    op = "score_titles" =>
        \A n \in Names :
            LET b == IF n \in DOMAIN pre.baseline THEN pre.baseline[n] ELSE 0
                smoothed == recent_ema[n]
            IN  /\ 10 * baseline[n] = 7 * b + 3 * smoothed
                /\ \A i \in 1..Len(all_results) :
                    all_results[i].name = n =>
                        /\ all_results[i].baseline = b
                        /\ all_results[i].recent_count = smoothed
                        /\ all_results[i].lift = [n |-> smoothed + Scale, d |-> b + Scale]

\* One company left out of the results with its baseline moved, another in
\* the results with a smoothed value that is not its raw count and a
\* baseline field that is not the stored one.
C3_Witness ==
    /\ op = "score_titles"
    /\ \E n \in Names :
        /\ \A i \in 1..Len(all_results) : all_results[i].name # n
        /\ n \in DOMAIN pre.baseline
        /\ baseline[n] # pre.baseline[n]
    /\ \E i \in 1..Len(all_results) :
        LET n == all_results[i].name
        IN  /\ n \in DOMAIN agg_counts
            /\ recent_ema[n] # Scale * agg_counts[n].total
            /\ all_results[i].baseline # baseline[n]

\* C4: a roster company is in the untruncated results of a scoring call
\* exactly if its aggregated raw count is > 0 or its lift is > 1.2; the lift
\* is that of the call: (recent + 1) / (baseline_before + 1).
C4_InclusionRule ==
    op \in {"score_titles", "refresh_trending"} =>
        \A n \in Names :
            LET raw == Scale * (IF n \in DOMAIN agg_counts THEN agg_counts[n].total ELSE 0)
                b == IF n \in DOMAIN pre.baseline THEN pre.baseline[n] ELSE 0
                recent == IF op = "score_titles" THEN recent_ema[n] ELSE raw
            IN  (\E i \in 1..Len(all_results) : all_results[i].name = n)
                    <=> (raw > 0 \/ 5 * (recent + Scale) > 6 * (b + Scale))

\* Raw count 1 with lift 1.05 is in; nothing stored and no mention (lift 1.0)
\* is out.
C4_Witness ==
    /\ op = "score_titles"
    /\ \E i \in 1..Len(all_results) :
        LET n == all_results[i].name
        IN  /\ n \in DOMAIN agg_counts
            /\ agg_counts[n].total = 1
            /\ 20 * all_results[i].lift.n = 21 * all_results[i].lift.d
    /\ \E n \in Names \ (DOMAIN pre.baseline \cup DOMAIN pre.recent_ema \cup DOMAIN agg_counts) :
        /\ recent_ema[n] = 0
        /\ \A i \in 1..Len(all_results) : all_results[i].name # n

\* C5: the results are the included companies, each once, in descending
\* order of (lift, recent_count); score_titles returns their first
\* min(20, n), and the scheduler's latest view is the first min(20, n) of its
\* all view.
C5_SortedTopTwenty ==
    op \in {"score_titles", "refresh_trending"} =>
        LET n == Len(all_results)
            m == IF n < 20 THEN n ELSE 20
            less(x, y) == RatLess(x.n, x.d, y.n, y.d)
            view == IF op = "score_titles" THEN returned ELSE latest_scores
        IN  /\ Cardinality({all_results[i].name : i \in 1..n}) = n
            /\ \A i \in 1..n, j \in 1..n :
                i < j =>
                    /\ ~less(all_results[i].lift, all_results[j].lift)
                    /\ ~less(all_results[j].lift, all_results[i].lift)
                        => all_results[i].recent_count >= all_results[j].recent_count
            /\ Len(view) = m
            /\ \A i \in 1..m : view[i] = all_results[i]
            /\ op = "refresh_trending" => all_trending_scores = all_results

\* More than 20 results, with a tie on lift inside the returned 20 that
\* recent_count decides.
C5_Witness ==
    /\ op = "score_titles"
    /\ Len(all_results) > 20
    /\ Len(returned) = 20
    /\ \E i \in 1..19 :
        /\ returned[i].lift # returned[i + 1].lift
        /\ ~LiftLess(returned[i].lift, returned[i + 1].lift)
        /\ ~LiftLess(returned[i + 1].lift, returned[i].lift)
        /\ returned[i].recent_count > returned[i + 1].recent_count

\* C6: from the same engine state and batch, refresh_trending leaves the
\* registers and produces the results that score_titles does.
C6_SchedulerPathEquivalent ==
    op = "refresh_trending" =>
        LET r == score_titles(pre.baseline, pre.recent_ema, titles, timestamp)
        IN  /\ baseline = r.baseline
            /\ recent_ema = r.recent_ema
            /\ all_trending_scores = r.all_results
            /\ latest_scores = r.returned

\* C8: constructing the detector from a malformed restored state does not
\* raise and leaves both maps empty.
C8_RestoreNeverFails ==
    (op = "on_startup" /\
     (\/ baseline_state.kind = "other"
      \/ /\ baseline_state.kind = "dict"
         /\ \E e \in {baseline_state.baseline, baseline_state.recent_ema} :
                \/ e.kind # "map"
                \/ \E k \in DOMAIN e.m : e.m[k].t # "num"))
        => (~raised /\ baseline = EmptyMap /\ recent_ema = EmptyMap)

\* C9: the label aggregated for a company is the label of the first matcher
\* in declared order (name, aliases, ticker) with a match in the earliest
\* title of the batch that mentions the company; a company no title mentions
\* has no entry.
C9_FirstLabelWins ==
    op \in {"score_titles", "refresh_trending"} =>
        \A k \in 1..Len(companies) :
            LET c == companies[k]
                hits(i) == {j \in 1..Len(company_patterns[k]) :
                               findall(company_patterns[k][j], Fold(titles[i])) > 0}
                mentioning == {i \in 1..Len(titles) : hits(i) # {}}
            IN  IF mentioning = {} THEN c.name \notin DOMAIN agg_counts
                ELSE LET first == CHOOSE i \in mentioning : \A h \in mentioning : i <= h
                         j == CHOOSE x \in hits(first) : \A y \in hits(first) : x <= y
                         label == IF j = 1 THEN c.name
                                  ELSE IF j <= 1 + Len(c.aliases) THEN c.aliases[j - 1]
                                  ELSE <<"$">> \o c.ticker
                     IN  /\ c.name \in DOMAIN agg_counts
                         /\ agg_counts[c.name].alias_used = [some |-> TRUE, s |-> label]

\* The first title matches only the alias, the second the name, the alias and
\* the ticker: alone it is labelled with the name, the batch with the alias.
C9_Witness ==
    /\ op = "score_titles"
    /\ Len(titles) = 2
    /\ LET c == companies[1]
           second == count_mentions(titles[2])
       IN  /\ c.name \in DOMAIN second
           /\ second[c.name].alias_used = [some |-> TRUE, s |-> c.name]
           /\ second[c.name].total = 3
           /\ agg_counts[c.name].alias_used = [some |-> TRUE, s |-> c.aliases[1]]
           /\ agg_counts[c.name].total = 4

\* C12: the alias_used field of every result is the label the mention
\* counter recorded for the company in the batch (the name, the alias, or
\* the ticker with "$" before it), unchanged by the display step; a result
\* of a company without a mention has none.
C12_LabelShownAsRecorded ==
    op \in {"score_titles", "refresh_trending"} =>
        \A i \in 1..Len(all_results) :
            LET n == all_results[i].name
            IN  all_results[i].alias_used =
                    (IF n \in DOMAIN agg_counts THEN agg_counts[n].alias_used
                     ELSE [some |-> FALSE, s |-> <<>>])

\* ---------------------------------------------------- export and import

\* The state exported with serialize_state and imported into a new detector
\* of the same roster, which replaces the old one.
RoundTrip ==
    /\ detector = "ready"
    /\ Construct(serialize_state(baseline, recent_ema))
    /\ exported' = [at |-> calls, registers |-> Registers(baseline, recent_ema)]
    /\ op' = "round_trip"
    /\ UNCHANGED <<globals, calls, matcher>>

RoundTripBatches ==
    { <<>>, << <<"X","a"," ","X">> >>, << <<"M","a","x"," ","M","i","a">>, <<"I"," ","M">> >> }

NextRoundTrip ==
    \/ \E st \in RestoredStates, hist \in HistoryFiles : OnStartup(st, hist)
    \/ \E batch \in RoundTripBatches : ScoreTitles(batch)
    \/ RoundTrip

SpecRoundTrip == Init /\ [][NextRoundTrip]_vars

\* C7: one score call on an empty batch right after an export and import
\* gives every roster company the values one such call gives from the
\* exported ones: recent_ema r/2 and baseline 0.7*b + 0.15*r, unset values
\* read as 0; entries of other names are as exported.
C7_RoundTripNoDrift ==
    (op = "score_titles" /\ titles = <<>> /\ exported.at = calls - 1) =>
        LET b0 == exported.registers.baseline
            r0 == exported.registers.recent_ema
        IN  /\ \A n \in Names :
                LET b == IF n \in DOMAIN b0 THEN b0[n] ELSE 0
                    r == IF n \in DOMAIN r0 THEN r0[n] ELSE 0
                IN  /\ 2 * recent_ema[n] = r
                    /\ 20 * baseline[n] = 14 * b + 3 * r
            /\ DOMAIN baseline = Names \cup DOMAIN b0
            /\ DOMAIN recent_ema = Names \cup DOMAIN r0
            /\ \A n \in DOMAIN b0 \ Names : baseline[n] = b0[n]
            /\ \A n \in DOMAIN r0 \ Names : recent_ema[n] = r0[n]

\* A state reached by a scoring call, exported, imported and scored on an
\* empty batch, with a positive recent_ema halved.
C7_Witness ==
    /\ op = "score_titles"
    /\ titles = <<>>
    /\ exported.at = calls - 1
    /\ calls = 2
    /\ \E n \in Names \cap DOMAIN exported.registers.recent_ema :
        /\ exported.registers.recent_ema[n] > 0
        /\ 2 * recent_ema[n] = exported.registers.recent_ema[n]

\* C7 as first stated: after export, import and one score call on an empty
\* batch every company's baseline and recent_ema are as before the export.
C7_AsStated ==
    (op = "score_titles" /\ titles = <<>> /\ exported.at = calls - 1) =>
        \A n \in Names :
            /\ n \in DOMAIN exported.registers.baseline
                => baseline[n] = exported.registers.baseline[n]
            /\ n \in DOMAIN exported.registers.recent_ema
                => recent_ema[n] = exported.registers.recent_ema[n]

\* ------------------------------------------------ registers of either sign

\* A baseline file with values below zero: baseline -0.5 and recent_ema -3
\* for the first roster entry.
SignedBaseline == [n \in {NameOf(1), NameOf(2)} |->
    JNum(IF n = NameOf(1) THEN 0 - (Scale \div 2) ELSE 0)]
SignedRecent == [n \in {NameOf(1), NameOf(2)} |->
    JNum(IF n = NameOf(1) THEN 0 - 3 * Scale ELSE Scale)]

SignedStates ==
    { NoState,
      Dict(Map(SignedBaseline), Map(SignedRecent), TRUE),
      Dict(Map(SparseBaseline), Map(SparseRecent), TRUE),
      Dict(Map(RampBaseline), Map(RampRecent), TRUE) }

NextSigned ==
    \/ \E st \in SignedStates, hist \in HistoryFiles : OnStartup(st, hist)
    \/ \E batch \in Batches : ScoreTitles(batch)

SpecSigned == Init /\ [][NextSigned]_vars

\* C11: a detector built without restored state, or from restored values that
\* are all >= 0, has only values >= 0 in baseline and recent_ema, and a
\* score_titles call on registers that are all >= 0 leaves them all >= 0;
\* every result of such a call has a lift with denominator baseline + 1 >= 1
\* and numerator > 0, so the lift is > 0 and nothing is divided by zero.
C11_NonNegative ==
    LET nonneg(m) == \A n \in DOMAIN m : m[n] >= 0
        restored(e) == \A n \in DOMAIN e.m : e.m[n].t = "num" /\ e.m[n].v >= 0
    IN  /\ (op = "on_startup" /\ ~raised /\ restored(baseline_state.baseline)
               /\ restored(baseline_state.recent_ema))
            => (nonneg(baseline) /\ nonneg(recent_ema))
        /\ (op = "score_titles" /\ nonneg(pre.baseline) /\ nonneg(pre.recent_ema))
            => /\ nonneg(baseline)
               /\ nonneg(recent_ema)
               /\ \A i \in 1..Len(all_results) :
                    /\ all_results[i].lift.d >= Scale
                    /\ all_results[i].lift.d = all_results[i].baseline + Scale
                    /\ all_results[i].lift.n > 0
                    /\ all_results[i].baseline >= 0
                    /\ all_results[i].recent_count >= 0

\* The second score_titles call after a start from values >= 0, with a
\* positive baseline and a positive recent_ema stored and a result emitted.
C11_Witness ==
    /\ op = "score_titles"
    /\ calls = 2
    /\ \A n \in DOMAIN pre.baseline : pre.baseline[n] >= 0
    /\ \A n \in DOMAIN pre.recent_ema : pre.recent_ema[n] >= 0
    /\ \E n \in Names : baseline[n] > 0 /\ recent_ema[n] > 0 /\ pre.baseline[n] > 0
    /\ \E n \in Names : baseline[n] = 0 /\ recent_ema[n] = 0
    /\ Len(all_results) > 0

\* ------------------------------------------- decay over quiet batches

\* Registers the detector starts a decay from, all >= 0.
DecayStates ==
    { NoState,
      Dict(Map(RampBaseline), Map(RampRecent), TRUE),
      Dict(Map(SparseBaseline), Map(SparseRecent), TRUE) }

\* The batches of the quiet calls: nothing, or a mention of NameOf(2) alone.
DecayBatches == { <<>>, << <<"M","a","x">> >> }

\* The companies no quiet batch mentions.
QuietNames ==
    { n \in Names : \A batch \in DecayBatches : n \notin DOMAIN Aggregate(batch, Len(batch)) }

\* Lines 127-138: no result of the last call is about the company.
Absent(name) == \A i \in 1..Len(all_results) : all_results[i].name # name

\* The first calls score any batch.
ScoreBurst(batch) == ScoreTitlesWithin(batch, MaxCalls - 1)

\* Every later call scores a quiet batch.
ScoreQuiet(batch) ==
    /\ calls >= MaxCalls - 1
    /\ ScoreTitlesWithin(batch, MaxDecay)

NextDecay ==
    \/ \E st \in DecayStates, hist \in HistoryFiles : OnStartup(st, hist)
    \/ \E batch \in Batches : ScoreBurst(batch)
    \/ \E batch \in DecayBatches : ScoreQuiet(batch)

\* What every step of NextDecay does to the detector and to the number of
\* calls made: on_startup when there is no detector, one more scoring call
\* while the detector is there.
CallMade ==
    \/ detector = "none" /\ ~raised /\ detector' = "ready" /\ calls' = calls
    \/ detector = "ready" /\ calls < MaxDecay /\ detector' = detector /\ calls' = calls + 1

\* The callers keep calling (main.py 138-146 loops forever): a call is made
\* whenever one stays possible.
SpecDecay == Init /\ [][NextDecay]_vars /\ WF_<<detector, calls>>(CallMade)

\* C13: from registers that are all >= 0, every score_titles call whose batch
\* has no mention of a company with a positive recent_ema leaves that
\* recent_ema positive and strictly smaller (a zero recent_ema stays zero);
\* a company absent from the results of one such call is absent from the
\* results of the next such call; and when every batch from some call on has
\* no mention of the company, from some call on it is absent from the results
\* of every call.
C13_DecayToExclusion ==
    /\ [][op' = "score_titles" =>
            \A n \in (Names \cap DOMAIN recent_ema) \ DOMAIN agg_counts' :
                /\ recent_ema[n] > 0 =>
                        (recent_ema'[n] > 0 /\ recent_ema'[n] < recent_ema[n])
                /\ recent_ema[n] = 0 => recent_ema'[n] = 0
                /\ (op = "score_titles" /\ n \notin DOMAIN agg_counts /\ Absent(n))
                        => Absent(n)']_vars
    /\ \A n \in QuietNames : <>[](op = "score_titles" /\ Absent(n))

\* After the calls of the burst, a quiet call leaves out a company that no
\* quiet batch mentions, whose recent_ema is still positive and whose lift at
\* the quiet call before was above 1.2: 5 (r + 1) > 6 (b + 1) for the baseline
\* b that call read, with 7 b = 10 pre.baseline - 3 pre.recent_ema.
C13_Witness ==
    /\ op = "score_titles"
    /\ calls > MaxCalls
    /\ \E n \in QuietNames :
        /\ n \notin DOMAIN agg_counts
        /\ Absent(n)
        /\ recent_ema[n] > 0
        /\ 53 * pre.recent_ema[n] > 60 * pre.baseline[n] + 7 * Scale

\* ------------------------------------------------------ the stored history

\* A snapshot an earlier run of the service wrote, k runs before this start.
StoredEntry(k) == [timestamp |-> 0 - k, companies |-> <<>>]

\* The list the history file holds, oldest snapshot first.
StoredHistory(len) == [i \in 1..len |-> StoredEntry(len + 1 - i)]

\* main.py 165-171: json.load of the history file, whatever its length:
\* nothing, just under, at and over the length line 127 tests, and far over.
StoredHistories ==
    { StoredHistory(len) :
        len \in {0, HistoryLimit - 1, HistoryLimit, HistoryLimit + 1,
                 HistoryLimit + HistoryLimit \div 2} }

NextHistory ==
    \/ \E hist \in StoredHistories : OnStartup(NoState, hist)
    \/ \E batch \in Batches : RefreshTrending(batch)

SpecHistory == Init /\ [][NextHistory]_vars

\* C14: after on_startup and after every completed refresh_trending run the
\* history list holds at most 100 snapshots, whatever the length of the
\* history file read at startup; a refresh puts its snapshot last and writes
\* the list it keeps to the history file.
C14_BoundedHistory ==
    /\ op \in {"on_startup", "refresh_trending"} => Len(historical_data) <= HistoryLimit
    /\ op = "refresh_trending" =>
        /\ Len(historical_data) > 0
        /\ historical_data[Len(historical_data)] = HistoricalEntry(timestamp, latest_scores)
        /\ history_file = historical_data
        /\ Len(history_file) <= HistoryLimit

\* ------------------------------------------------- the mention counter alone

RECURSIVE TextsUpTo(_, _)
TextsUpTo(alphabet, n) ==
    IF n = 0 THEN {<<>>}
    ELSE LET shorter == TextsUpTo(alphabet, n - 1)
         IN  shorter \cup {Append(t, ch) : t \in shorter, ch \in alphabet}

MatchAlphabet == {"A", "I", "a", "X", "M", "$", " "}

\* The texts of the boundary examples that MatchAlphabet cannot spell.
SampleTexts ==
    { <<"M","A","I","L">>, <<"S","A","I">>, <<"A","I","X">>, <<"$","A","I">>,
      <<"A","I">>, <<"X","a"," ","X">>, <<"$","a","i"," ","A","I",".">> }

InitMatch ==
    /\ Boot
    /\ text \in TextsUpTo(MatchAlphabet, MaxLen) \cup SampleTexts
    /\ counts = EmptyMap
    /\ pc = "text"

\* trending.py 68-89: detector._count_mentions(text).
CountMentions ==
    /\ pc = "text"
    /\ counts' = count_mentions(text)
    /\ pc' = "counted"
    /\ UNCHANGED <<text, engine, globals, locals, trail>>

NextMatch == CountMentions

SpecMatch == InitMatch /\ [][NextMatch]_vars

\* C10: the count of a company in a text is, summed over its matchers, the
\* number of occurrences of the matcher's phrase (letters compared without
\* case) that are neither preceded nor followed by a word character or "$"
\* for a name or alias, and for a ticker those whose span, the ticker alone
\* or with one "$" before it, is neither preceded nor followed by a word
\* character.  The roster's phrases are single words, so such occurrences do
\* not overlap.  For ticker AI: "AI" and "$AI" count 1; "MAIL", "SAI" and
\* "AIX" count 0.
C10_BoundaryMatching ==
    pc = "counted" =>
        LET word == {"A","B","C","D","E","F","G","H","I","J","K","L","M","N","O","P",
                     "Q","R","S","T","U","V","W","X","Y","Z",
                     "a","b","c","d","e","f","g","h","i","j","k","l","m","n","o","p",
                     "q","r","s","t","u","v","w","x","y","z",
                     "0","1","2","3","4","5","6","7","8","9","_"}
            same(a, b) == Lower(a) = Lower(b)
            at(ph, p) == /\ p + Len(ph) - 1 <= Len(text)
                         /\ \A i \in 1..Len(ph) : same(text[p + i - 1], ph[i])
            free(p, class) == p < 1 \/ p > Len(text) \/ text[p] \notin class
            names(ph) == Cardinality({p \in 1..Len(text) :
                            /\ at(ph, p)
                            /\ free(p - 1, word \cup {"$"})
                            /\ free(p + Len(ph), word \cup {"$"})})
            tickers(ph) == Cardinality({p \in 1..Len(text) :
                            /\ at(ph, p)
                            /\ free(p + Len(ph), word)
                            /\ \/ free(p - 1, word)
                               \/ p > 1 /\ text[p - 1] = "$" /\ free(p - 2, word)})
            RECURSIVE sum(_, _)
            sum(c, i) == IF i = 0 THEN 0 ELSE sum(c, i - 1) + names(c.aliases[i])
            expected(c) == names(c.name) + sum(c, Len(c.aliases))
                           + (IF c.ticker # <<>> THEN tickers(c.ticker) ELSE 0)
            total(c) == IF c.name \in DOMAIN counts THEN counts[c.name].total ELSE 0
        IN  /\ \A k \in 1..Len(companies) : total(companies[k]) = expected(companies[k])
            /\ \A k \in 1..Len(companies) :
                   companies[k].name \in DOMAIN counts => counts[companies[k].name].total > 0
            /\ text \in {<<"A","I">>, <<"$","A","I">>} => total(companies[1]) = 1
            /\ text \in {<<"M","A","I","L">>, <<"S","A","I">>, <<"A","I","X">>}
                   => total(companies[1]) = 0

\* "$AI" counted once for the company with ticker AI.
C10_Witness ==
    /\ pc = "counted"
    /\ text = <<"$","A","I">>
    /\ companies[1].ticker = <<"A","I">>
    /\ counts[companies[1].name].total = 1

====
